---- MODULE Spec2Model ----
(***************************************************************************)
(* Model of the driver-monitoring pipeline: main.py (frame producer,       *)
(* single-slot frame queue, detection worker thread) and driver.py         *)
(* (DriverClass: frame-skip throttle, voting windows, severity, driver     *)
(* authorization vote, render surface).                                    *)
(*                                                                         *)
(* Frames are numbered 1, 2, ... in acquisition order; None is the stop    *)
(* sentinel of main.detect_image.  The computer-vision collaborators are   *)
(* the environment: every detection pass draws its answer from a set of    *)
(* detector answers (no face, or a face with a name and two booleans).     *)
(***************************************************************************)
EXTENDS Integers, Sequences, FiniteSets, TLC

\* ---------------------------------------------------------------- bounds
\* number of frames the source delivers before it is exhausted
MaxFrames == 3
\* largest MAX_FRAME_COUNT the environment is started with
MaxSkip == 1
\* number of pushes into the voting windows followed by SpecWindow
MaxPushes == 17
\* value at which the run counter of consecutive matching frames saturates
MaxRun == 26
\* drowsy answers within one voting window followed by SpecAuth
MaxAlerts == 1

\* ----------------------------------------------------- program constants
\* main.py:45  frame_q = Queue(1)
frame_q_maxsize == 1
\* driver.py:54
vote_num == 15
\* driver.py:229  upper clamp of driver_vote
vote_max == 20
\* driver.py:237  Locked -> Driving threshold
drive_threshold == 15
\* driver.py:243  wrong-driver threshold
wrong_threshold == 5

\* main.py:27  the stop sentinel
None == 0
\* main.py:60  the name typed at the prompt
driver_name == "alice"
\* names IdentificationClass.get_name can return
Names == {"alice", "bob", "Unknown"}

VARIABLES
    \* main.py
    frame_q,          \* Queue(1): sequence of frames
    producerPc,       \* position of capture_frames
    capOpened,        \* cap.isOpened()
    capReleased,      \* cap.release() was called
    acquired,         \* number of frames cap.read() delivered
    readFailed,       \* some cap.read() returned retval False
    pending,          \* frame the producer is about to put
    shown,            \* image last passed to cv.imshow
    workerPc,         \* position of main.detect_image
    frame,            \* frame held by the worker
    stopTaken,        \* the worker took None from frame_q
    processed,        \* frames handed to DriverClass.detect_image, in order
    \* driver.py, DriverClass
    max_frame_count,
    frame_count,
    info,
    drowsiness_vote,
    drowsiness_sum,
    yawn_vote,
    yawn_sum,
    driving,
    driver_vote,
    output_img,
    \* history of the DriverClass object
    pushes,           \* observations pushed into the windows, oldest first
    maxVote,          \* largest driver_vote so far
    matchRun,         \* matching frames in a row since driver_vote was 0
    missRun,          \* frames of somebody else in a row since Driving was
                      \* entered (-1: no such run)
    skipped           \* frames since the last frame that ran detect_models

pipeVars == <<frame_q, producerPc, capOpened, capReleased, acquired,
              readFailed, pending, shown, workerPc, frame, stopTaken,
              processed>>
driverVars == <<max_frame_count, frame_count, info, drowsiness_vote,
                drowsiness_sum, yawn_vote, yawn_sum, driving, driver_vote,
                output_img>>
histVars == <<pushes, maxVote, matchRun, missRun, skipped>>
vars == <<pipeVars, driverVars, histVars>>

Min(a, b) == IF a < b THEN a ELSE b
Max(a, b) == IF a > b THEN a ELSE b

\* ------------------------------------------------------- detector answers
\* self.info: [] after construction, "" when no face was found, else the list
InfoInit == [kind |-> "list_empty", name |-> "", drowsiness |-> FALSE, yawn |-> FALSE]
InfoNoFace == [kind |-> "str_empty", name |-> "", drowsiness |-> FALSE, yawn |-> FALSE]
InfoResult(n, d, y) == [kind |-> "result", name |-> n, drowsiness |-> d, yawn |-> y]

\* `not self.info`
NotInfo(i) == i.kind # "result"

\* every answer detect_models can leave in self.info
AllAnswers == {InfoNoFace} \cup {InfoResult(n, d, y) : n \in Names, d \in BOOLEAN, y \in BOOLEAN}

\* ------------------------------------------------------------ pure parts
\* Python adds a bool to an int as 0 or 1 (driver.py:209-213)
BoolInt(b) == IF b THEN 1 ELSE 0

\* driver.py:55-61  Queue(vote_num) filled with vote_num times False
InitialVote == [i \in 1..vote_num |-> FALSE]

\* a push that forgets to take the evicted observation out of the sum
PushVote_noevict(vote, sum, b) ==
    [sum |-> sum + BoolInt(b),
     vote |-> Append(Tail(vote), b)]

\* driver.py:209-211 / 212-214  sum += b; sum -= vote.get(); vote.put(b)
PushVote(vote, sum, b) ==
    [sum |-> (sum + BoolInt(b)) - BoolInt(Head(vote)),
     vote |-> Append(Tail(vote), b)]

\* driver.py:193  alert = None
NoAlert == "None"

\* the two signals taken for each other
AlertText_swapped(drowsiness, yawn) ==
    LET a1 == IF yawn THEN "DROWSINESS" ELSE NoAlert
    IN  IF drowsiness
        THEN IF a1 = NoAlert THEN "YAWN" ELSE "DROWSINESS + YAWN"
        ELSE a1

\* an alert taken from the windowed sums where the code takes the frame's
\* own booleans
AlertText_sums(drowsiness, yawn) ==
    LET a1 == IF drowsiness_sum > 0 THEN "DROWSINESS" ELSE NoAlert
    IN  IF yawn_sum > 0
        THEN IF a1 = NoAlert THEN "YAWN" ELSE "DROWSINESS + YAWN"
        ELSE a1

\* driver.py:193-201  instantaneous alert text
AlertText(drowsiness, yawn) ==
    LET a1 == IF drowsiness THEN "DROWSINESS" ELSE NoAlert
    IN  IF yawn
        THEN IF a1 = NoAlert THEN "YAWN" ELSE "DROWSINESS + YAWN"
        ELSE a1

\* driver.py:216, 219  int(self.yawn_sum*1.1)+self.drowsiness_sum*2
SleepyScore(dsum, ysum) == ((ysum * 11) \div 10) + dsum * 2

\* the thresholds compared with >= : the boundaries fall one level higher
SleepyStatus_ge(dsum, ysum) ==
    IF SleepyScore(dsum, ysum) >= vote_num THEN "danger"
    ELSE IF SleepyScore(dsum, ysum) >= vote_num \div 2 THEN "warning"
    ELSE "safe"

\* driver.py:216-222
SleepyStatus(dsum, ysum) ==
    IF SleepyScore(dsum, ysum) > vote_num THEN "danger"
    ELSE IF SleepyScore(dsum, ysum) > vote_num \div 2 THEN "warning"
    ELSE "safe"

\* the lower clamp missing: every other frame decrements
VoteStep_nofloor(name, vote) ==
    IF name = driver_name /\ vote < vote_max THEN vote + 1
    ELSE vote - 1

\* driver.py:229-232
VoteStep(name, vote) ==
    IF name = driver_name /\ vote < vote_max THEN vote + 1
    ELSE IF vote > 0 THEN vote - 1
    ELSE vote

\* driver.py:244  the text carries a trailing bell character
WrongDriverText == "Wrong Driver! Speed Limit: 20\\a"

\* the wrong-driver threshold compared with <= : the alert comes a frame early
DrivingStatus_le(wasDriving, vote) ==
    IF ~wasDriving THEN "Vehicle Locked"
    ELSE IF vote <= wrong_threshold THEN WrongDriverText
    ELSE "Driving Normally"

\* driver.py:234-246  status text chosen from the flag before this frame
DrivingStatus(wasDriving, vote) ==
    IF ~wasDriving THEN "Vehicle Locked"
    ELSE IF vote < wrong_threshold THEN WrongDriverText
    ELSE "Driving Normally"

\* a flag that falls back to Locked when the vote is used up
DrivingNext_relock(wasDriving, vote) ==
    IF ~wasDriving THEN vote >= drive_threshold ELSE vote > 0

\* the threshold compared with > : Driving is entered one frame late
DrivingNext_late(wasDriving, vote) ==
    IF ~wasDriving THEN vote > drive_threshold ELSE TRUE

\* driver.py:234-239  the flag after this frame
DrivingNext(wasDriving, vote) ==
    IF ~wasDriving THEN vote >= drive_threshold ELSE TRUE

\* driver.py:247-252  where the status text is drawn
StatusPos(status) ==
    IF ~(status = "Wrong Driver! Speed Limit: 20") THEN <<200, 60>> ELSE <<80, 60>>

\* driver.py:51  np.zeros((360, 640, 3))
BlankImg == [frame |-> None, banner |-> "", alert |-> NoAlert, sleepy_status |-> "",
             driving_status |-> "", pos |-> <<0, 0>>]

\* driver.py:148-151  early return: frame without annotations
MissingImg(f) == [frame |-> f, banner |-> "Driver Missing", alert |-> NoAlert,
                  sleepy_status |-> "", driving_status |-> "", pos |-> <<0, 0>>]

\* driver.py:257  the fully annotated frame
AnnotatedImg(f, alert, sleepy, status) ==
    [frame |-> f, banner |-> "", alert |-> alert, sleepy_status |-> sleepy,
     driving_status |-> status, pos |-> StatusPos(status)]

\* ---------------------------------------------------------- DriverClass
\* driver.py:25-64  DriverClass.__init__
DriverInit ==
    /\ max_frame_count \in 0..MaxSkip
    /\ frame_count = max_frame_count
    /\ info = InfoInit
    /\ drowsiness_vote = InitialVote
    /\ drowsiness_sum = 0
    /\ yawn_vote = InitialVote
    /\ yawn_sum = 0
    /\ driving = FALSE
    /\ driver_vote = 0
    /\ output_img = BlankImg

\* the throttle compared with > : the counter has to pass max_frame_count
RunsDetection_gt == frame_count > max_frame_count

\* driver.py:140-144  does this frame run detect_models
RunsDetection == frame_count >= max_frame_count

\* a missing driver counted as a frame that does not match
DriverMissing_nonmatch(f) ==
    /\ output_img' = MissingImg(f)
    /\ driver_vote' = (IF driver_vote > 0 THEN driver_vote - 1 ELSE driver_vote)
    /\ UNCHANGED <<drowsiness_vote, drowsiness_sum, yawn_vote, yawn_sum,
                   driving>>

\* driver.py:147-151  `if not self.info`: publish the bare frame and return
DriverMissing(f) ==
    /\ output_img' = MissingImg(f)
    /\ UNCHANGED <<drowsiness_vote, drowsiness_sum, yawn_vote, yawn_sum,
                   driving, driver_vote>>

\* driver.py:153-257  a result is present: alert, windows, severity, vote,
\* driving flag, status text, publish
DriverAnnotate(f, res) ==
    LET dw == PushVote(drowsiness_vote, drowsiness_sum, res.drowsiness)
        yw == PushVote(yawn_vote, yawn_sum, res.yawn)
        v1 == VoteStep(res.name, driver_vote)
    IN  /\ drowsiness_sum' = dw.sum
        /\ drowsiness_vote' = dw.vote
        /\ yawn_sum' = yw.sum
        /\ yawn_vote' = yw.vote
        /\ driver_vote' = v1
        /\ driving' = DrivingNext(driving, v1)
        /\ output_img' = AnnotatedImg(f, AlertText(res.drowsiness, res.yawn),
                                      SleepyStatus(dw.sum, yw.sum),
                                      DrivingStatus(driving, v1))

\* a throttle that returns on a skipped frame where the code goes on with
\* the retained self.info
DriverDetectImage_skipidle(f, det) ==
    IF RunsDetection
    THEN /\ frame_count' = 0
         /\ info' = det
         /\ UNCHANGED max_frame_count
         /\ IF NotInfo(det) THEN DriverMissing(f) ELSE DriverAnnotate(f, det)
    ELSE /\ frame_count' = frame_count + 1
         /\ UNCHANGED <<max_frame_count, info, drowsiness_vote, drowsiness_sum,
                        yawn_vote, yawn_sum, driving, driver_vote, output_img>>

\* driver.py:135-257  DriverClass.detect_image(image); det is what
\* detect_models leaves in self.info when it runs on this frame
DriverDetectImage(f, det) ==
    LET info1 == IF RunsDetection THEN det ELSE info
    IN  /\ frame_count' = (IF RunsDetection THEN 0 ELSE frame_count + 1)
        /\ info' = info1
        /\ UNCHANGED max_frame_count
        /\ IF NotInfo(info1) THEN DriverMissing(f) ELSE DriverAnnotate(f, info1)

\* history of the object: largest vote, run of matching frames from vote 0,
\* run of other faces since Driving was entered, frames since a detection
HistInit ==
    /\ pushes = <<>>
    /\ maxVote = 0
    /\ matchRun = 0
    /\ missRun = -1
    /\ skipped = 0

TrackVote ==
    /\ maxVote' = Max(maxVote, driver_vote')
    /\ matchRun' = IF NotInfo(info') \/ info'.name # driver_name THEN 0
                   ELSE IF driver_vote = 0 THEN 1
                   ELSE IF matchRun > 0 THEN Min(matchRun + 1, MaxRun)
                   ELSE 0
    /\ missRun' = IF ~driving /\ driving' THEN 0
                  ELSE IF missRun >= 0 /\ ~NotInfo(info') /\ info'.name # driver_name
                       THEN Min(missRun + 1, MaxRun)
                  ELSE -1
    /\ skipped' = IF RunsDetection THEN 0 ELSE skipped + 1

TrackPushes ==
    pushes' = IF NotInfo(info') THEN pushes
              ELSE Append(pushes, <<info'.drowsiness, info'.yawn>>)

\* ------------------------------------------------------------- main.py
\* main.py:45, 61, 64  state once the worker thread is started
PipeInit ==
    /\ frame_q = <<>>
    /\ producerPc = "open"
    /\ capOpened = FALSE
    /\ capReleased = FALSE
    /\ acquired = 0
    /\ readFailed = FALSE
    /\ pending = None
    /\ shown = BlankImg
    /\ workerPc = "get"
    /\ frame = None
    /\ stopTaken = FALSE
    /\ processed = <<>>

Init == PipeInit /\ DriverInit /\ HistInit

\* a queue built without its maxsize: put never blocks
QueueFull_unbounded(q) == FALSE

\* a queue whose last slot cannot be used: put blocks on the empty queue
QueueFull_offbyone(q) == Len(q) >= frame_q_maxsize - 1

\* queue.Queue.put blocks while qsize() >= maxsize
QueueFull(q) == Len(q) >= frame_q_maxsize

\* main.py:32  cap = cv.VideoCapture(source); the open can fail, and
\* isOpened() keeps reporting its outcome until release (a failed read
\* does not close the capture)
OpenCapture ==
    /\ producerPc = "open"
    /\ capOpened' \in BOOLEAN
    /\ producerPc' = "loop"
    /\ UNCHANGED <<frame_q, capReleased, acquired, readFailed, pending, shown,
                   workerPc, frame, stopTaken, processed>>
    /\ UNCHANGED <<driverVars, histVars>>

\* main.py:33-36  while cap.isOpened(): retval, frame = cap.read()
\* a read can fail at any time and fails once the source is exhausted
ReadFrame ==
    /\ producerPc = "loop"
    /\ capOpened
    /\ \E retval \in (IF acquired < MaxFrames THEN BOOLEAN ELSE {FALSE}) :
          IF retval
          THEN /\ acquired' = acquired + 1
               /\ pending' = acquired + 1
               /\ producerPc' = "put"
               /\ UNCHANGED readFailed
          ELSE /\ readFailed' = TRUE
               /\ producerPc' = "show"
               /\ UNCHANGED <<acquired, pending>>
    /\ UNCHANGED <<frame_q, capOpened, capReleased, shown,
                   workerPc, frame, stopTaken, processed>>
    /\ UNCHANGED <<driverVars, histVars>>

\* a put that gives up on a full queue (put_nowait, queue.Full swallowed)
SubmitFrame_drop ==
    /\ producerPc = "put"
    /\ frame_q' = (IF QueueFull(frame_q) THEN frame_q ELSE Append(frame_q, pending))
    /\ pending' = None
    /\ producerPc' = "show"
    /\ UNCHANGED <<capOpened, capReleased, acquired, readFailed, shown,
                   workerPc, frame, stopTaken, processed>>
    /\ UNCHANGED <<driverVars, histVars>>

\* a producer that runs the detection itself when the queue is full
SubmitFrame_inline ==
    /\ producerPc = "put"
    /\ IF QueueFull(frame_q)
       THEN /\ \E det \in AllAnswers : DriverDetectImage(pending, det)
            /\ TrackVote
            /\ TrackPushes
            /\ processed' = Append(processed, pending)
            /\ UNCHANGED frame_q
       ELSE /\ frame_q' = Append(frame_q, pending)
            /\ UNCHANGED <<processed, driverVars, histVars>>
    /\ pending' = None
    /\ producerPc' = "show"
    /\ UNCHANGED <<capOpened, capReleased, acquired, readFailed, shown,
                   workerPc, frame, stopTaken>>

\* main.py:37  frame_q.put(cv.flip(frame, 1))
SubmitFrame ==
    /\ producerPc = "put"
    /\ ~QueueFull(frame_q)
    /\ frame_q' = Append(frame_q, pending)
    /\ pending' = None
    /\ producerPc' = "show"
    /\ UNCHANGED <<capOpened, capReleased, acquired, readFailed, shown,
                   workerPc, frame, stopTaken, processed>>
    /\ UNCHANGED <<driverVars, histVars>>

\* main.py:38-40 with driver.py:70-71  img = model_class.get_img(); imshow
ShowOutput ==
    /\ producerPc = "show"
    /\ shown' = output_img
    /\ producerPc' = "loop"
    /\ UNCHANGED <<frame_q, capOpened, capReleased, acquired, readFailed,
                   pending, workerPc, frame, stopTaken, processed>>
    /\ UNCHANGED <<driverVars, histVars>>

\* main.py:33, 41-42  the loop is left when cap.isOpened() is false
ReleaseCapture ==
    /\ producerPc = "loop"
    /\ ~capOpened
    /\ capReleased' = TRUE
    /\ producerPc' = "return"
    /\ UNCHANGED <<frame_q, capOpened, acquired, readFailed, pending, shown,
                   workerPc, frame, stopTaken, processed>>
    /\ UNCHANGED <<driverVars, histVars>>

\* main.py:64, 70-72  the script ends; the daemon worker thread ends with it
ProcessExit ==
    /\ producerPc = "return"
    /\ producerPc' = "exit"
    /\ workerPc' = (IF workerPc = "done" THEN "done" ELSE "killed")
    /\ UNCHANGED <<frame_q, capOpened, capReleased, acquired, readFailed,
                   pending, shown, frame, stopTaken, processed>>
    /\ UNCHANGED <<driverVars, histVars>>

\* a worker loop that skips None (continue) where the code breaks
TakeFrame_continue ==
    /\ workerPc = "get"
    /\ frame_q # <<>>
    /\ frame' = Head(frame_q)
    /\ frame_q' = Tail(frame_q)
    /\ stopTaken' = (stopTaken \/ Head(frame_q) = None)
    /\ workerPc' = (IF Head(frame_q) = None THEN "get" ELSE "detect")
    /\ UNCHANGED <<producerPc, capOpened, capReleased, acquired, readFailed,
                   pending, shown, processed>>
    /\ UNCHANGED <<driverVars, histVars>>

\* main.py:26-27  frame = frame_q.get(); if frame is None: break
TakeFrame ==
    /\ workerPc = "get"
    /\ frame_q # <<>>
    /\ frame' = Head(frame_q)
    /\ frame_q' = Tail(frame_q)
    /\ stopTaken' = (stopTaken \/ Head(frame_q) = None)
    /\ workerPc' = (IF Head(frame_q) = None THEN "done" ELSE "detect")
    /\ UNCHANGED <<producerPc, capOpened, capReleased, acquired, readFailed,
                   pending, shown, processed>>
    /\ UNCHANGED <<driverVars, histVars>>

\* main.py:28  model_class.detect_image(frame)
ProcessFrame ==
    /\ workerPc = "detect"
    /\ \E det \in AllAnswers : DriverDetectImage(frame, det)
    /\ TrackVote
    /\ TrackPushes
    /\ processed' = Append(processed, frame)
    /\ workerPc' = "get"
    /\ UNCHANGED <<frame_q, producerPc, capOpened, capReleased, acquired,
                   readFailed, pending, shown, frame, stopTaken>>

Producer == OpenCapture \/ ReadFrame \/ SubmitFrame \/ ShowOutput
               \/ ReleaseCapture \/ ProcessExit
Worker == TakeFrame \/ ProcessFrame

Next ==
    \/ OpenCapture
    \/ ReadFrame
    \/ SubmitFrame
    \/ ShowOutput
    \/ ReleaseCapture
    \/ ProcessExit
    \/ TakeFrame
    \/ ProcessFrame

\* the program: capture_frames on the main thread, detect_image on its thread
Spec == Init /\ [][Next]_vars

\* the two threads are scheduled fairly by the operating system
FairSpec == Spec /\ WF_vars(Producer) /\ WF_vars(Worker)

\* --------------------------------------------- the worker and a stop value
\* main.py:24-27  a caller of detect_image puts None into frame_q to stop it
\* (capture_frames never does); the put blocks like every other put
SubmitStop ==
    /\ ~QueueFull(frame_q)
    /\ frame_q' = Append(frame_q, None)
    /\ UNCHANGED <<producerPc, capOpened, capReleased, acquired, readFailed,
                   pending, shown, workerPc, frame, stopTaken, processed>>
    /\ UNCHANGED <<driverVars, histVars>>

NextStop ==
    \/ OpenCapture
    \/ ReadFrame
    \/ SubmitFrame
    \/ ShowOutput
    \/ ReleaseCapture
    \/ ProcessExit
    \/ TakeFrame
    \/ ProcessFrame
    \/ SubmitStop

\* the worker loop of main.py fed by capture_frames and a stopping caller
SpecStop == Init /\ [][NextStop]_vars

\* ------------------------------------- a DriverClass object called in a row
\* answers of a detector whose two signals are opposite: each window sees
\* every boolean sequence, and the windows never hold the same content
WindowAnswers == {InfoNoFace} \cup {InfoResult("Unknown", d, ~d) : d \in BOOLEAN}

\* answers of a detector that seldom sees drowsiness (yawning with it): faces
\* with any name, or none; at most MaxAlerts alerts within one window
AuthAnswers ==
    {InfoNoFace} \cup
    {InfoResult(n, d, d) : n \in Names,
                           d \in (IF drowsiness_sum < MaxAlerts THEN BOOLEAN ELSE {FALSE})}

\* driver.py:135  detect_image called with the next frame, windows followed
DetectImageWindow ==
    /\ Len(pushes) < MaxPushes
    /\ \E det \in WindowAnswers : DriverDetectImage(1, det)
    /\ TrackVote
    /\ TrackPushes
    /\ UNCHANGED pipeVars

\* driver.py:135  detect_image called with the next frame, vote followed
DetectImageAuth ==
    /\ \E det \in AuthAnswers : DriverDetectImage(1, det)
    /\ TrackVote
    /\ UNCHANGED pushes
    /\ UNCHANGED pipeVars

\* answers of a detector that always finds the driver, and whose signals,
\* once on, stay on: the windows pass through every pair of sums
OnsetAnswers ==
    {InfoResult(driver_name, d, y) :
        d \in (IF drowsiness_vote[vote_num] THEN {TRUE} ELSE BOOLEAN),
        y \in (IF yawn_vote[vote_num] THEN {TRUE} ELSE BOOLEAN)}

\* driver.py:135  detect_image called with the next frame, sums followed
DetectImageOnset ==
    /\ Len(pushes) < MaxPushes
    /\ \E det \in OnsetAnswers : DriverDetectImage(1, det)
    /\ TrackVote
    /\ TrackPushes
    /\ UNCHANGED pipeVars

\* driver.py:26  MAX_FRAME_COUNT unset: no frame skipped
InitWindow == Init /\ max_frame_count = 0

NextWindow == DetectImageWindow
NextAuth == DetectImageAuth
NextOnset == DetectImageOnset

SpecWindow == InitWindow /\ [][NextWindow]_vars
SpecAuth == Init /\ [][NextAuth]_vars
SpecOnset == Init /\ [][NextOnset]_vars

\* =================================================================== claims
\* frames the worker holds and the producer is about to put
Held == IF workerPc = "detect" THEN <<frame>> ELSE <<>>
Pending == IF producerPc = "put" THEN <<pending>> ELSE <<>>

\* number of TRUE among the last Min(vote_num, Len(pushes)) pushes, signal k
CountLast(k) ==
    LET n == Min(vote_num, Len(pushes))
    IN  Cardinality({i \in (Len(pushes) - n + 1)..Len(pushes) : pushes[i][k]})

\* C1: the frame queue never holds more than one frame, and while a put is
\* waiting on the occupied slot the producer stays in that put and the only
\* change to the queue is the worker's get emptying it
Thm_C1 ==
    /\ [](Len(frame_q) <= 1)
    /\ [][(producerPc = "put" /\ frame_q # <<>>) =>
            /\ producerPc' = "put"
            /\ pending' = pending
            /\ (frame_q' # frame_q =>
                  (workerPc = "get" /\ frame' = Head(frame_q) /\ frame_q' = <<>>))]_vars

\* C1: a put is waiting while the slot holds the frame before it and the
\* worker is busy with the one before that
Wit_C1 ==
    /\ producerPc = "put"
    /\ frame_q = <<pending - 1>>
    /\ workerPc = "detect"
    /\ frame = pending - 2

\* C2: once a cap.read() has failed, the capture is released and the worker
\* loop terminates
Cex_C2 == [](readFailed => <>(capReleased /\ workerPc = "done"))

\* C3: after the worker has taken None it stays terminated: no further get,
\* no detection, no change of windows, vote, flag or render surface
Thm_C3 ==
    [][stopTaken =>
         /\ workerPc = "done" /\ workerPc' = "done"
         /\ Len(frame_q') >= Len(frame_q)
         /\ UNCHANGED <<frame, processed>>
         /\ UNCHANGED driverVars
         /\ UNCHANGED histVars]_vars

\* C3: the worker stopped after processing a frame; a later frame sits in the
\* queue untaken and the producer waits behind it
Wit_C3 ==
    /\ stopTaken
    /\ processed # <<>>
    /\ frame_q # <<>> /\ Head(frame_q) # None
    /\ producerPc = "put"

\* C4: the frames processed, then the one in the worker, then the one in the
\* queue, then the one waiting in put are exactly the frames acquired, in
\* order, each once; and the worker is alive whenever a frame was acquired
Thm_C4 ==
    /\ processed \o Held \o frame_q \o Pending = [i \in 1..acquired |-> i]
    /\ (acquired > 0 => workerPc \in {"get", "detect"})

\* C4: two frames are processed, a third is in the queue after the producer
\* had to wait
Wit_C4 ==
    /\ Len(processed) >= 2
    /\ frame_q = <<Len(processed) + 1>>
    /\ workerPc = "get"

\* C5: each window's sum is the number of TRUE among the last
\* Min(15, pushes) observations pushed into it, and lies in 0..15
Thm_C5 ==
    /\ drowsiness_sum = CountLast(1)
    /\ yawn_sum = CountLast(2)
    /\ drowsiness_sum \in 0..15
    /\ yawn_sum \in 0..15

\* C5: more than 15 pushes, TRUE observations already evicted from both
\* windows, both sums strictly between 0 and 15
Wit_C5 ==
    /\ Len(pushes) > vote_num
    /\ pushes[1][1] /\ pushes[2][2]
    /\ drowsiness_sum \in 1..14
    /\ yawn_sum \in 1..14

\* C6: after 25 or more matching frames in a row from vote 0 the vote is 20
Cex_C6 == matchRun >= 25 => driver_vote = 20

\* C7: the driver vote is an integer within 0..20
Thm_C7 == driver_vote \in 0..20

\* C7: the vote has been at 20 and is back at 0 after a frame of somebody else
Wit_C7 ==
    /\ maxVote = vote_max
    /\ driver_vote = 0
    /\ info.kind = "result" /\ info.name # driver_name

\* C8: once driving is true it is true in every later state
Thm_C8 == [][driving => driving']_vars

\* C8: Driving, and since Driving was entered the vote fell to 0 and climbed
\* back to 15 or more
Wit_C8 ==
    /\ driving
    /\ matchRun >= drive_threshold
    /\ driver_vote >= drive_threshold
    /\ maxVote > driver_vote

\* C9: driving is true exactly when the vote has reached 15 at some frame so
\* far; in a run of matching frames from vote 0 that is from the 15th frame on
Thm_C9 ==
    /\ driving <=> (maxVote >= 15)
    /\ (matchRun \in 1..14 /\ maxVote = matchRun) => ~driving
    /\ matchRun >= 15 => driving

\* C9: the 15th matching frame in a row from vote 0, the vote is 15 for the
\* first time
Wit_C9 ==
    /\ matchRun = 15
    /\ driver_vote = 15
    /\ maxVote = 15
    /\ driving

\* C10: a detect_image call that ends with no result in self.info leaves the
\* vote, the driving flag, both windows and both sums unchanged
Thm_C10 ==
    [][NotInfo(info') =>
         UNCHANGED <<driver_vote, driving, drowsiness_vote, drowsiness_sum,
                     yawn_vote, yawn_sum>>]_vars

\* C10: a frame without a face was just processed while Driving, with a vote
\* above 0 and observations in both windows
Wit_C10 ==
    /\ output_img.banner = "Driver Missing"
    /\ NotInfo(info)
    /\ driving
    /\ driver_vote > 0
    /\ drowsiness_sum > 0
    /\ yawn_sum > 0

\* floor(ysum * 1.1) + dsum * 2 written without the code's arithmetic
Score(dsum, ysum) == ysum + (ysum \div 10) + dsum + dsum

\* C11: on every annotated frame the severity shown is danger iff the score
\* of the two sums is above 15, warning iff it is 8..15, safe iff it is at
\* most 7; the sums are within 0..15
Thm_C11 ==
    (output_img.sleepy_status # "") =>
        LET sc == Score(drowsiness_sum, yawn_sum)
            st == output_img.sleepy_status
        IN  /\ drowsiness_sum \in 0..15 /\ yawn_sum \in 0..15
            /\ st \in {"danger", "warning", "safe"}
            /\ (st = "danger") <=> (sc > 15)
            /\ (st = "warning") <=> (8 <= sc /\ sc <= 15)
            /\ (st = "safe") <=> (sc <= 7)
            /\ (drowsiness_sum = 4 /\ yawn_sum = 0 => st = "warning")
            /\ (drowsiness_sum = 0 /\ yawn_sum = 15 => sc = 16 /\ st = "danger")
            /\ (drowsiness_sum = 3 /\ yawn_sum = 0 => st = "safe")

\* C11: fifteen yawns and no drowsiness: the score is floor(16.5) = 16, danger
Wit_C11 ==
    /\ drowsiness_sum = 0
    /\ yawn_sum = 15
    /\ output_img.sleepy_status = "danger"

\* C12: frame_count starts at max_frame_count and stays within
\* 0..max_frame_count; a frame runs detection and resets the counter iff
\* frame_count >= max_frame_count, else it is skipped and the counter goes up
\* by one; the first frame runs detection, a later detection follows exactly
\* max_frame_count skipped frames, and with max_frame_count = 0 none is skipped
Thm_C12 ==
    /\ [](frame_count \in 0..max_frame_count)
    /\ [](processed = <<>> => frame_count = max_frame_count)
    /\ [][processed' # processed =>
            /\ (skipped' = 0) <=> (frame_count >= max_frame_count)
            /\ (skipped' # 0) => (skipped' = skipped + 1 /\ info' = info)
            /\ frame_count' = (IF frame_count >= max_frame_count
                               THEN 0 ELSE frame_count + 1)
            /\ (processed = <<>> => skipped' = 0)
            /\ (skipped' = 0 /\ processed # <<>> => skipped = max_frame_count)
            /\ (max_frame_count = 0 => skipped' = 0)]_vars

\* C12: with a throttle above 0 the second detection has just run, after
\* exactly max_frame_count skipped frames
Wit_C12 ==
    /\ max_frame_count > 0
    /\ Len(processed) = max_frame_count + 2
    /\ skipped = 0
    /\ frame_count = 0

\* the first n frames all had a result with drowsiness and without a yawn
AllDrowsy(n) ==
    /\ Len(pushes) = n
    /\ \A i \in 1..n : pushes[i] = <<TRUE, FALSE>>

\* C13: while the first frames (up to 15) all show drowsiness and no yawn,
\* the alert text of each is "DROWSINESS" and the sums are (frames, 0); after
\* the 15th the sums are (15, 0) and the severity shown is danger
Thm_C13 ==
    \A n \in 1..15 :
        AllDrowsy(n) =>
            /\ output_img.alert = "DROWSINESS"
            /\ drowsiness_sum = n
            /\ yawn_sum = 0
            /\ (n = 15 => output_img.sleepy_status = "danger")

\* C13: the 15th drowsy frame in a row from the start
Wit_C13 ==
    /\ AllDrowsy(15)
    /\ drowsiness_sum = 15
    /\ output_img.sleepy_status = "danger"
    /\ output_img.alert = "DROWSINESS"

\* C14: whenever the producer waits in put on the occupied slot, a display
\* read (get_img, imshow) can take place
Cex_C14 == (producerPc = "put" /\ QueueFull(frame_q)) => ENABLED ShowOutput

\* the state the decisions are taken from
decisionVars == <<drowsiness_vote, drowsiness_sum, yawn_vote, yawn_sum,
                  driver_vote, driving>>

\* C15: windows, sums, vote and driving flag change only in the step in which
\* the worker ends its one detect_image pass on the frame it holds; every
\* step of the producer and of the display leaves them unchanged
Thm_C15 ==
    [][(decisionVars' # decisionVars \/ producerPc' # producerPc \/ shown' # shown) =>
         IF workerPc = "detect" /\ workerPc' = "get"
         THEN /\ processed' = Append(processed, frame)
              /\ UNCHANGED <<producerPc, shown, frame_q, pending, acquired>>
         ELSE UNCHANGED <<decisionVars, processed, info, frame_count, output_img>>]_vars

\* C15: the display has read a published frame and the producer goes on
\* while the worker is inside a pass, vote and sums above 0
Wit_C15 ==
    /\ workerPc = "detect"
    /\ producerPc \in {"loop", "put"}
    /\ shown.frame # None
    /\ driver_vote > 0
    /\ drowsiness_sum > 0
    /\ yawn_sum > 0

\* C16: on a frame with a result the status shown is "Vehicle Locked" if the
\* flag was false before the frame, else the wrong-driver text iff the vote
\* after the frame is below 5 and "Driving Normally" iff it is 5 or more;
\* after Driving is entered the wrong-driver text is not shown on the first
\* 10 frames of somebody else in a row and is shown on the 11th, at vote 4
Thm_C16 ==
    /\ [][~NotInfo(info') =>
            output_img'.driving_status =
                (IF ~driving THEN "Vehicle Locked"
                 ELSE IF driver_vote' < 5 THEN WrongDriverText
                 ELSE "Driving Normally")]_vars
    /\ [](missRun \in 0..10 => output_img.driving_status # WrongDriverText)
    /\ [](missRun = 11 =>
            (output_img.driving_status = WrongDriverText /\ driver_vote = 4))

\* C16: the 11th frame of somebody else in a row after Driving was entered
Wit_C16 ==
    /\ missRun = 11
    /\ driving
    /\ driver_vote = 4
    /\ output_img.driving_status = WrongDriverText

\* C17: the wrong-driver text is drawn at another place than (200, 60), where
\* "Driving Normally" and "Vehicle Locked" are drawn
Cex_C17 ==
    (output_img.driving_status = WrongDriverText) => (output_img.pos # <<200, 60>>)

\* C18: the alert text of an annotated frame is given by the drowsiness and
\* yawn booleans of its result alone
Thm_C18 ==
    ~NotInfo(info) =>
        output_img.alert =
            (CASE ~info.drowsiness /\ ~info.yawn -> NoAlert
               [] info.drowsiness /\ ~info.yawn -> "DROWSINESS"
               [] ~info.drowsiness /\ info.yawn -> "YAWN"
               [] info.drowsiness /\ info.yawn -> "DROWSINESS + YAWN")

\* C18: a frame without drowsiness and without yawn shows no alert while both
\* windows still hold observations and the vote is above 0
Wit_C18 ==
    /\ ~NotInfo(info) /\ ~info.drowsiness /\ ~info.yawn
    /\ output_img.alert = NoAlert
    /\ drowsiness_sum > 0 /\ yawn_sum > 0
    /\ output_img.sleepy_status # ""
    /\ driver_vote > 0

\* C19: every processed frame with a retained result pushes that result once
\* into each window and steps the vote once, run or skipped; a skipped frame
\* reuses the retained result; a frame with no retained result pushes nothing
Thm_C19 ==
    [][processed' # processed =>
         /\ (skipped' > 0 => info' = info)
         /\ IF NotInfo(info')
            THEN UNCHANGED decisionVars
            ELSE /\ drowsiness_vote' = Append(Tail(drowsiness_vote), info'.drowsiness)
                 /\ yawn_vote' = Append(Tail(yawn_vote), info'.yawn)
                 /\ drowsiness_sum' = (drowsiness_sum + BoolInt(info'.drowsiness))
                                        - BoolInt(Head(drowsiness_vote))
                 /\ yawn_sum' = (yawn_sum + BoolInt(info'.yawn))
                                  - BoolInt(Head(yawn_vote))
                 /\ driver_vote' = (IF info'.name = driver_name /\ driver_vote < 20
                                    THEN driver_vote + 1
                                    ELSE IF driver_vote > 0 THEN driver_vote - 1
                                    ELSE driver_vote)]_vars

\* C19: throttle k > 0, one detection of a drowsy, yawning driver and the k
\* frames skipped after it: k + 1 observations in each window, vote k + 1
Wit_C19 ==
    /\ max_frame_count > 0
    /\ Len(processed) = max_frame_count + 1
    /\ skipped = max_frame_count
    /\ drowsiness_sum = max_frame_count + 1
    /\ yawn_sum = max_frame_count + 1
    /\ driver_vote = max_frame_count + 1

\* C20: under fair scheduling every acquired frame is eventually processed,
\* a producer waiting in put eventually gets past it, and both voting queues
\* hold exactly 15 entries between two passes (15 at the get, 14 at the put)
Thm_C20 ==
    /\ \A i \in 1..MaxFrames : (acquired >= i) ~> (Len(processed) >= i)
    /\ (producerPc = "put") ~> (producerPc = "show")
    /\ [](Len(drowsiness_vote) = 15 /\ Len(yawn_vote) = 15)

\* C20: every frame the source delivered has been processed, the queue is
\* empty and the worker waits for the next frame
Wit_C20 ==
    /\ acquired >= 3
    /\ Len(processed) = acquired
    /\ frame_q = <<>>
    /\ workerPc = "get"
    /\ producerPc = "show"

====
